---- MODULE Spec2Model ----
(***************************************************************************)
(* Model of app.py: the stock-research pipeline.                           *)
(*   get_company_ratios   -> local RatioSet parsed from the profile page   *)
(*   get_financial_data   -> remote RatioSet (actor) + transcript links    *)
(*   read_transcript      -> text of the first pages of one document       *)
(*   generate_analysis    -> text-generation call under a 3-attempt retry  *)
(*   the button handler   -> sequences the above for one request           *)
(*                                                                         *)
(* Strings whose characters matter (ratio values) are sequences of         *)
(* one-character strings.  Long texts (transcripts) are sequences of       *)
(* pieces, each piece standing for a run of characters of known origin     *)
(* and length, so that lengths up to the 165000-character cap are exact.   *)
(***************************************************************************)
EXTENDS Integers, Sequences, FiniteSets, TLC

VARIABLES
    APIFY_TOKEN,          \* TRUE iff os.environ has APIFY_TOKEN
    GEMINI_KEY,           \* TRUE iff os.environ has GEMINI_API_KEY
    pc,                   \* position of the button handler
    ticker,               \* the submitted ticker
    main_ratios,          \* result of get_company_ratios
    ratios,               \* first result of get_financial_data
    links,                \* second result of get_financial_data
    all_transcripts_text, \* accumulated transcript text
    audit_prompt,         \* the "Transcript Snippets" segment of the prompt
    transcripts,          \* the strings read_transcript returned, in order
    attempts,             \* outcome of each generation call of this request
    shown,                \* what the page shows at the end of the run
    read_calls,           \* urls handed to read_transcript, in call order
    local_fetches,        \* profile-page GETs made by get_company_ratios
    actor_calls,          \* calls of the remote actor
    actor_ratios,         \* the RatioSet read from the actor's dataset
    arg,                  \* input of the function under study (pure specs)
    ret,                  \* its result
    called                \* TRUE once the function has been applied

vars == <<APIFY_TOKEN, GEMINI_KEY, pc, ticker, main_ratios, ratios, links,
          all_transcripts_text, audit_prompt, transcripts, attempts, shown,
          read_calls, local_fetches, actor_calls, actor_ratios, arg, ret,
          called>>

request_vars == <<pc, ticker, main_ratios, ratios, links, all_transcripts_text,
                  audit_prompt, transcripts, attempts, shown, read_calls,
                  local_fetches, actor_calls, actor_ratios>>

pure_vars == <<arg, ret, called>>

(***************************************************************************)
(* Bounds of the model.                                                    *)
(***************************************************************************)
MaxFragLen == 5      \* characters in one text node of a value element
MaxFrags == 2        \* text nodes inside one value element
MaxPages == 12       \* pages of a transcript document
MaxEntries == 4      \* concall entries on a profile page

Min(a, b) == IF a < b THEN a ELSE b

(***************************************************************************)
(* Character strings: Python str.strip, str.join, str.replace.             *)
(***************************************************************************)
Chars == {"x", " ", "\n"}
Whitespace == {" ", "\n"}

Strings(n) == UNION {[1..k -> Chars] : k \in 0..n}

RECURSIVE LStrip(_)
LStrip(s) ==
    IF s = <<>> THEN s
    ELSE IF Head(s) \in Whitespace THEN LStrip(Tail(s)) ELSE s

RECURSIVE RStrip(_)
RStrip(s) ==
    IF s = <<>> THEN s
    ELSE IF s[Len(s)] \in Whitespace THEN RStrip(SubSeq(s, 1, Len(s) - 1)) ELSE s

\* str.strip()
Strip(s) == RStrip(LStrip(s))

\* str.replace(old, new): left to right, non-overlapping, one pass
RECURSIVE Replace(_, _, _)
Replace(s, old, new) ==
    IF Len(s) < Len(old) THEN s
    ELSE IF SubSeq(s, 1, Len(old)) = old
         THEN new \o Replace(SubSeq(s, Len(old) + 1, Len(s)), old, new)
         ELSE <<Head(s)>> \o Replace(Tail(s), old, new)

\* separator.join(strings)
RECURSIVE Join(_, _)
Join(sep, strs) ==
    IF strs = <<>> THEN <<>>
    ELSE IF Len(strs) = 1 THEN strs[1]
    ELSE strs[1] \o sep \o Join(sep, Tail(strs))

\* the stripped, non-empty strings of an element, in document order
RECURSIVE StrippedStrings(_)
StrippedStrings(frags) ==
    IF frags = <<>> THEN <<>>
    ELSE LET s == Strip(Head(frags))
         IN  (IF s = <<>> THEN <<>> ELSE <<s>>) \o StrippedStrings(Tail(frags))

\* tag.get_text(separator, strip=True)
get_text(sep, frags) == Join(sep, StrippedStrings(frags))

(***************************************************************************)
(* get_company_ratios.  A page is [raises, status, container, items]       *)
(* (raises: the GET or the parse throws); an item is [has_name, has_value, *)
(* name, value] with name and value the text nodes of the two spans.  A    *)
(* RatioSet is a set of <<name, value>> pairs with one pair per name.      *)
(***************************************************************************)
NormalizeValue(frags) ==
    Replace(Replace(get_text(<<" ">>, frags), <<"\n">>, <<>>),
            <<" ", " ">>, <<" ">>)

RECURSIVE ratios_loop(_, _)
ratios_loop(items, ratios_data) ==
    IF items = <<>> THEN ratios_data
    ELSE LET li == Head(items)
             name == get_text(<<>>, li.name)
             value == NormalizeValue(li.value)
         IN  IF li.has_name /\ li.has_value
             THEN ratios_loop(Tail(items),
                     {p \in ratios_data : p[1] # name} \cup {<<name, value>>})
             ELSE ratios_loop(Tail(items), ratios_data)

get_company_ratios(page) ==
    IF page.raises THEN {}
    ELSE IF page.status # 200 THEN {}
    ELSE IF ~page.container THEN {}
    ELSE ratios_loop(page.items, {})

(***************************************************************************)
(* Long texts.  A piece [kind, n, len, ws] is a run of len characters:     *)
(*   "label"    the separator "\n--- TRANSCRIPT n SOURCE ---\n"            *)
(*   "marker"   the page marker "\n--- PAGE n ---\n"                       *)
(*   "page"     the text pypdf extracted from page n (ws: all whitespace)  *)
(*   "sentinel" the string "[Scanned PDF/No Text]"                         *)
(*   "error"    the string "Could not read PDF: " + str(e)                 *)
(* A text is a sequence of pieces of positive length.                      *)
(***************************************************************************)
Digits(i) == IF i < 10 THEN 1 ELSE IF i < 100 THEN 2 ELSE 3

Piece(kind, n, len, ws) == [kind |-> kind, n |-> n, len |-> len, ws |-> ws]

\* f"\n--- TRANSCRIPT {i+1} SOURCE ---\n", with number = i+1
Label(number) == Piece("label", number, 28 + Digits(number), FALSE)

\* f"\n--- PAGE {i+1} ---\n", with number = i+1
Marker(number) == Piece("marker", number, 15 + Digits(number), FALSE)

Sentinel == <<Piece("sentinel", 0, 21, FALSE)>>

\* f"Could not read PDF: {str(e)}"
ErrorText(msglen) == <<Piece("error", 0, 20 + msglen, FALSE)>>

RECURSIVE TotalLen(_)
TotalLen(text) ==
    IF text = <<>> THEN 0 ELSE Head(text).len + TotalLen(Tail(text))

\* text.strip() is the empty string
StripsToEmpty(text) == \A k \in 1..Len(text) : text[k].ws

\* text[:k]
RECURSIVE Take(_, _)
Take(text, k) ==
    IF text = <<>> \/ k <= 0 THEN <<>>
    ELSE IF Head(text).len <= k
         THEN <<Head(text)>> \o Take(Tail(text), k - Head(text).len)
         ELSE <<[Head(text) EXCEPT !.len = k]>>

(***************************************************************************)
(* read_transcript.  A document is [fault, msglen, pages]:                 *)
(*   fault  "none", or "network" (requests.get raises), "status"           *)
(*          (raise_for_status raises), "parse" (PdfReader or extract_text  *)
(*          raises); msglen is the length of str(e);                       *)
(*   pages  the text extract_text() gives for each page, as [ws, len]      *)
(*          (len = 0: None or "").                                         *)
(***************************************************************************)
PagesReadAll(num_pages) == num_pages

PagesRead(num_pages) == Min(10, num_pages)

\* for i in range(lo, hi): if page_text: text += marker + page_text
RECURSIVE extract_loop(_, _, _, _)
extract_loop(pages, i, hi, text) ==
    IF i >= hi THEN text
    ELSE LET page_text == pages[i + 1]
         IN  IF page_text.len > 0
             THEN extract_loop(pages, i + 1, hi,
                     text \o <<Marker(i + 1),
                               Piece("page", i + 1, page_text.len, page_text.ws)>>)
             ELSE extract_loop(pages, i + 1, hi, text)

read_transcript(doc) ==
    IF doc.fault # "none" THEN ErrorText(doc.msglen)
    ELSE LET text == extract_loop(doc.pages, 0, PagesRead(Len(doc.pages)), <<>>)
         IN  IF ~StripsToEmpty(text) THEN text ELSE Sentinel

(***************************************************************************)
(* extract_transcript_links.  A profile page lists concall entries; an     *)
(* entry is [anchor, href] where anchor is the text of its concall-link    *)
(* anchor ("none": it has no such anchor) and href is "none", "abs" or     *)
(* "rel"; the path of the entry at position k is k.                        *)
(***************************************************************************)
Url(origin, path) == [origin |-> origin, path |-> path]

RECURSIVE links_loop(_, _, _)
links_loop(entries, k, transcript_links) ==
    IF k > Len(entries) THEN transcript_links
    ELSE LET li == entries[k]
             full_link == IF li.href = "abs"
                          THEN Url("https://cdn.example", k)
                          ELSE Url("https://www.screener.in", k)
         IN  IF li.anchor = "Transcript" /\ li.href # "none"
             THEN links_loop(entries, k + 1, Append(transcript_links, full_link))
             ELSE links_loop(entries, k + 1, transcript_links)

extract_transcript_links(entries) == links_loop(entries, 1, <<>>)

(***************************************************************************)
(* Python values that may be None: [tag, v] with tag "None", "dict" (v a   *)
(* set of <<key, value>> pairs) or "list" (v a sequence).                  *)
(***************************************************************************)
NoneDict == [tag |-> "None", v |-> {}]
Dict(d) == [tag |-> "dict", v |-> d]
NoneList == [tag |-> "None", v |-> <<>>]
List(l) == [tag |-> "list", v |-> l]

\* `not ratios` for a dict or None
not_ratios_only_none(r) == r.tag = "None"

not_ratios(r) == r.tag = "None" \/ r.v = {}

\* `links` in a condition is true for a non-empty list
has_links(l) == l.tag = "list" /\ l.v # <<>>

(***************************************************************************)
(* get_financial_data.  The actor run is [raises, dataset], the dataset a  *)
(* sequence of items [has_ratios, ratios, fields]; the profile page is     *)
(* [raises, status, entries].  The result records, besides the returned    *)
(* pair, whether the actor was called and what its dataset gave.           *)
(***************************************************************************)
\* the configuration block defines client and apify_client only when both are set
clients_defined(gemini_key, apify_token) == gemini_key /\ apify_token

\* item.get("ratios", item)
item_get_ratios(item) ==
    IF item.has_ratios THEN item.ratios ELSE Dict(item.fields)

\* ratios = {}; for item in ...iterate_items(): ratios = item.get(...); break
first_item_ratios(dataset) ==
    IF dataset = <<>> THEN Dict({}) ELSE item_get_ratios(Head(dataset))

get_financial_data(defined, actor, page) ==
    IF ~defined
    THEN \* NameError on apify_client, caught by the except clause
         [ratios |-> NoneDict, links |-> NoneList,
          actor_called |-> FALSE, fetched |-> NoneDict]
    ELSE IF actor.raises
    THEN [ratios |-> NoneDict, links |-> NoneList,
          actor_called |-> TRUE, fetched |-> NoneDict]
    ELSE LET fetched == first_item_ratios(actor.dataset)
         IN  IF page.raises
             THEN [ratios |-> NoneDict, links |-> NoneList,
                   actor_called |-> TRUE, fetched |-> fetched]
             ELSE [ratios |-> fetched,
                   links |-> List(IF page.status = 200
                                  THEN extract_transcript_links(page.entries)
                                  ELSE <<>>),
                   actor_called |-> TRUE, fetched |-> fetched]

(***************************************************************************)
(* generate_analysis under @retry(stop=stop_after_attempt(3)): what the    *)
(* wrapper does after attempt number attempt_number.                       *)
(***************************************************************************)
retry_decision_4(attempt_number, raised) ==
    IF ~raised THEN "return"
    ELSE IF attempt_number >= 4 THEN "raise" ELSE "retry"

retry_decision(attempt_number, raised) ==
    IF ~raised THEN "return"
    ELSE IF attempt_number >= 3 THEN "raise" ELSE "retry"

(***************************************************************************)
(* The button handler.                                                     *)
(***************************************************************************)
\* the status note "No transcripts found. Proceeding with Ratio analysis only."
initial_text_note == <<Piece("note", 0, 58, FALSE)>>

\* all_transcripts_text = ""
initial_text == <<>>

recent_links_2(l) == SubSeq(l, 1, Min(2, Len(l)))

\* links[:3]
recent_links(l) == SubSeq(l, 1, Min(3, Len(l)))

snippets_uncut(text) == text

\* all_transcripts_text[:165000]
snippets(text) == Take(text, 165000)

\* the f-string: the three data segments of the prompt
build_prompt(mr, r, text) ==
    [main_ratios |-> mr, ratios |-> r, snippets |-> snippets(text)]

NoPrompt == [main_ratios |-> {}, ratios |-> NoneDict, snippets |-> <<>>]

(***************************************************************************)
(* Inputs of the orchestrator: what the outside world may answer.          *)
(***************************************************************************)
Tickers == {"", "infy", "INFY"}

\* str.upper()
upper(t) == IF t = "infy" THEN "INFY" ELSE t

RatioItem(valuefrags) ==
    [has_name |-> TRUE, has_value |-> TRUE,
     name |-> <<<<"x">>>>, value |-> valuefrags]

LocalPage(raises, status, container, items) ==
    [raises |-> raises, status |-> status, container |-> container, items |-> items]

LocalPages ==
    { LocalPage(TRUE, 0, FALSE, <<>>),
      LocalPage(FALSE, 404, FALSE, <<>>),
      LocalPage(FALSE, 200, TRUE, <<RatioItem(<<<<"x", " ">>, <<"x">>>>)>>) }

DatasetItems ==
    { [has_ratios |-> TRUE, ratios |-> Dict({<<"P/E", "23.5">>}), fields |-> {}],
      [has_ratios |-> TRUE, ratios |-> Dict({}), fields |-> {}],
      [has_ratios |-> TRUE, ratios |-> NoneDict, fields |-> {}],
      [has_ratios |-> FALSE, ratios |-> NoneDict, fields |-> {<<"name", "X">>}] }

ActorRuns ==
    {[raises |-> TRUE, dataset |-> <<>>]}
    \cup {[raises |-> FALSE, dataset |-> d] :
             d \in UNION {[1..k -> DatasetItems] : k \in 0..2}}

ConcallEntries ==
    { [anchor |-> "Transcript", href |-> "abs"],
      [anchor |-> "Transcript", href |-> "rel"],
      [anchor |-> "Transcript", href |-> "none"],
      [anchor |-> "none", href |-> "none"] }

ProfilePages ==
    {[raises |-> TRUE, status |-> 0, entries |-> <<>>],
     [raises |-> FALSE, status |-> 503, entries |-> <<>>]}
    \cup {[raises |-> FALSE, status |-> 200, entries |-> e] :
             e \in UNION {[1..k -> ConcallEntries] : k \in 0..MaxEntries}}

SmallPageLen == 7

\* one page that, labelled, fills the prompt's transcript budget exactly
FullPageLen == 165000 - 29 - 16

PageText(ws, len) == [ws |-> ws, len |-> len]

Document(fault, msglen, pages) ==
    [fault |-> fault, msglen |-> msglen, pages |-> pages]

OrchDocs ==
    { Document("network", 30, <<>>),
      Document("none", 0, <<PageText(FALSE, 0)>>),
      Document("none", 0, [p \in 1..MaxPages |-> PageText(FALSE, SmallPageLen)]),
      Document("none", 0, <<PageText(FALSE, FullPageLen)>>) }

(***************************************************************************)
(* The state after the script has loaded and before the button is pressed. *)
(***************************************************************************)
InitRequest ==
    /\ pc = "Idle"
    /\ ticker = ""
    /\ main_ratios = {}
    /\ ratios = NoneDict
    /\ links = NoneList
    /\ all_transcripts_text = <<>>
    /\ audit_prompt = NoPrompt
    /\ transcripts = <<>>
    /\ attempts = <<>>
    /\ shown = "nothing"
    /\ read_calls = <<>>
    /\ local_fetches = 0
    /\ actor_calls = 0
    /\ actor_ratios = NoneDict

Init ==
    /\ APIFY_TOKEN \in BOOLEAN
    /\ GEMINI_KEY \in BOOLEAN
    /\ InitRequest
    /\ arg = <<>>
    /\ ret = <<>>
    /\ called = FALSE

\* ticker = st.text_input(...).upper(); if st.button(...): if not ticker: warning
Submit(t) ==
    /\ pc = "Idle"
    /\ ticker' = upper(t)
    /\ pc' = IF upper(t) = "" THEN "Idle" ELSE "FetchingLocalRatios"
    /\ shown' = IF upper(t) = "" THEN "warning" ELSE "nothing"
    /\ UNCHANGED <<APIFY_TOKEN, GEMINI_KEY, main_ratios, ratios, links,
                   all_transcripts_text, audit_prompt, transcripts, attempts,
                   read_calls, local_fetches, actor_calls, actor_ratios, pure_vars>>

\* main_ratios = get_company_ratios(ticker)
StepLocalRatios ==
    /\ pc = "FetchingLocalRatios"
    /\ \E page \in LocalPages : main_ratios' = get_company_ratios(page)
    /\ local_fetches' = local_fetches + 1
    /\ pc' = "FetchingRemoteRatiosAndLinks"
    /\ UNCHANGED <<APIFY_TOKEN, GEMINI_KEY, ticker, ratios, links,
                   all_transcripts_text, audit_prompt, transcripts, attempts,
                   shown, read_calls, actor_calls, actor_ratios, pure_vars>>

\* ratios, links = get_financial_data(ticker); the gate; all_transcripts_text = "";
\* and, when there are no links, the prompt
StepRemote ==
    /\ pc = "FetchingRemoteRatiosAndLinks"
    /\ \E actor \in ActorRuns, page \in ProfilePages :
         LET r == get_financial_data(clients_defined(GEMINI_KEY, APIFY_TOKEN),
                                     actor, page)
         IN  /\ ratios' = r.ratios
             /\ links' = r.links
             /\ actor_calls' = actor_calls + (IF r.actor_called THEN 1 ELSE 0)
             /\ actor_ratios' = r.fetched
             /\ IF not_ratios(r.ratios)
                THEN /\ pc' = "Failed"
                     /\ shown' = "fetch_error"
                     /\ UNCHANGED <<all_transcripts_text, audit_prompt>>
                ELSE /\ shown' = shown
                     /\ all_transcripts_text' = initial_text
                     /\ IF has_links(r.links)
                        THEN /\ pc' = "ExtractingTranscripts"
                             /\ UNCHANGED audit_prompt
                        ELSE /\ pc' = "Synthesizing"
                             /\ audit_prompt' =
                                  build_prompt(main_ratios, r.ratios, initial_text)
    /\ UNCHANGED <<APIFY_TOKEN, GEMINI_KEY, ticker, main_ratios, transcripts,
                   attempts, read_calls, local_fetches, pure_vars>>

\* one iteration of: for i, link in enumerate(recent_links): ... += label + read_transcript(link)
\* and, after the last one, the prompt
StepReadTranscript ==
    /\ pc = "ExtractingTranscripts"
    /\ LET todo == recent_links(links.v)
           i == Len(read_calls)
       IN  /\ i < Len(todo)
           /\ \E doc \in OrchDocs :
                LET got == read_transcript(doc)
                    text == all_transcripts_text \o <<Label(i + 1)>> \o got
                IN  /\ transcripts' = Append(transcripts, got)
                    /\ all_transcripts_text' = text
                    /\ IF i + 1 = Len(todo)
                       THEN /\ pc' = "Synthesizing"
                            /\ audit_prompt' = build_prompt(main_ratios, ratios, text)
                       ELSE UNCHANGED <<pc, audit_prompt>>
           /\ read_calls' = Append(read_calls, todo[i + 1])
    /\ UNCHANGED <<APIFY_TOKEN, GEMINI_KEY, ticker, main_ratios, ratios, links,
                   attempts, shown, local_fetches, actor_calls, actor_ratios,
                   pure_vars>>

\* one attempt of generate_analysis(audit_prompt) and what the retry wrapper and
\* the try/except around it do with its outcome
StepGenerate ==
    /\ pc = "Synthesizing"
    /\ \E raised \in BOOLEAN :
         LET decision == retry_decision(Len(attempts) + 1, raised)
         IN  /\ attempts' = Append(attempts, IF raised THEN "raise" ELSE "ok")
             /\ pc' = IF decision = "return" THEN "Complete"
                      ELSE IF decision = "raise" THEN "Failed" ELSE pc
             /\ shown' = IF decision = "return" THEN "report"
                         ELSE IF decision = "raise" THEN "generation_error"
                         ELSE shown
    /\ UNCHANGED <<APIFY_TOKEN, GEMINI_KEY, ticker, main_ratios, ratios, links,
                   all_transcripts_text, audit_prompt, transcripts, read_calls,
                   local_fetches, actor_calls, actor_ratios, pure_vars>>

\* the next interaction reruns the script from the top: nothing of the request is kept
Rerun ==
    /\ pc \in {"Complete", "Failed"}
    /\ pc' = "Idle"
    /\ ticker' = ""
    /\ main_ratios' = {}
    /\ ratios' = NoneDict
    /\ links' = NoneList
    /\ all_transcripts_text' = <<>>
    /\ audit_prompt' = NoPrompt
    /\ transcripts' = <<>>
    /\ attempts' = <<>>
    /\ shown' = "nothing"
    /\ read_calls' = <<>>
    /\ local_fetches' = 0
    /\ actor_calls' = 0
    /\ actor_ratios' = NoneDict
    /\ UNCHANGED <<APIFY_TOKEN, GEMINI_KEY, pure_vars>>

Next ==
    \/ \E t \in Tickers : Submit(t)
    \/ StepLocalRatios
    \/ StepRemote
    \/ StepReadTranscript
    \/ StepGenerate
    \/ Rerun

Spec == Init /\ [][Next]_vars

(***************************************************************************)
(* get_company_ratios on its own: every value element of up to MaxFrags    *)
(* text nodes of up to MaxFragLen characters.                              *)
(***************************************************************************)
FragSeqs == UNION {[1..k -> Strings(MaxFragLen)] : k \in 0..MaxFrags}

RatioPages ==
    {LocalPage(FALSE, 200, TRUE, <<RatioItem(v)>>) : v \in FragSeqs}
    \cup {LocalPage(FALSE, 200, TRUE,
                    <<[RatioItem(<<<<"x">>>>) EXCEPT !.has_value = FALSE]>>),
          LocalPage(FALSE, 200, FALSE, <<>>),
          LocalPage(FALSE, 404, FALSE, <<>>),
          LocalPage(TRUE, 0, FALSE, <<>>)}

InitRatios ==
    /\ APIFY_TOKEN = TRUE
    /\ GEMINI_KEY = TRUE
    /\ InitRequest
    /\ arg \in RatioPages
    /\ ret = {}
    /\ called = FALSE

CallGetCompanyRatios ==
    /\ ~called
    /\ called' = TRUE
    /\ ret' = get_company_ratios(arg)
    /\ UNCHANGED <<APIFY_TOKEN, GEMINI_KEY, request_vars, arg>>

NextRatios == CallGetCompanyRatios

SpecRatios == InitRatios /\ [][NextRatios]_vars

(***************************************************************************)
(* read_transcript on its own: documents of up to MaxPages pages.  Every   *)
(* page has the document's base kind except two, which have any kind.      *)
(* A text page p holds 100 + p characters, a whitespace page p characters.  *)
(***************************************************************************)
PageKinds == {"empty", "blank", "text"}

PageOfKind(kind, p) ==
    IF kind = "empty" THEN PageText(FALSE, 0)
    ELSE IF kind = "blank" THEN PageText(TRUE, p)
    ELSE PageText(FALSE, 100 + p)

ReadDocs ==
    {Document(f, 30, <<>>) : f \in {"network", "status", "parse"}}
    \cup {Document("none", 0, <<>>)}
    \cup {Document("none", 0,
                   [p \in 1..n |-> IF p = a THEN PageOfKind(ka, p)
                                   ELSE IF p = b THEN PageOfKind(kb, p)
                                   ELSE PageOfKind(base, p)]) :
             <<n, a, b, base, ka, kb>> \in
                 {t \in (1..MaxPages) \X (1..MaxPages) \X (1..MaxPages)
                        \X PageKinds \X PageKinds \X PageKinds :
                     t[2] <= t[3] /\ t[3] <= t[1]}}

InitRead ==
    /\ APIFY_TOKEN = TRUE
    /\ GEMINI_KEY = TRUE
    /\ InitRequest
    /\ arg \in ReadDocs
    /\ ret = <<>>
    /\ called = FALSE

CallReadTranscript ==
    /\ ~called
    /\ called' = TRUE
    /\ ret' = read_transcript(arg)
    /\ UNCHANGED <<APIFY_TOKEN, GEMINI_KEY, request_vars, arg>>

NextRead == CallReadTranscript

SpecRead == InitRead /\ [][NextRead]_vars

(***************************************************************************)
(* Properties.                                                             *)
(***************************************************************************)
PastGate ==
    pc \in {"ExtractingTranscripts", "Synthesizing", "Complete"}
    \/ (pc = "Failed" /\ attempts # <<>>)

PromptBuilt ==
    pc \in {"Synthesizing", "Complete"} \/ (pc = "Failed" /\ attempts # <<>>)

NonEmptyRatioSet(r) == r.tag = "dict" /\ r.v # {}

\* C1: when get_financial_data yields no remote ratios (None or an empty
\* mapping) the request ends in Failed with no read_transcript call and no
\* generation call; every transcript download and every generation call of a
\* request is preceded by a non-empty remote RatioSet of that request.
C1_NoRatiosNoPipeline ==
    /\ (read_calls # <<>> \/ transcripts # <<>> \/ attempts # <<>>)
          => NonEmptyRatioSet(ratios)
    /\ PastGate => NonEmptyRatioSet(ratios)
    /\ (~NonEmptyRatioSet(ratios)
          /\ pc \notin {"Idle", "FetchingLocalRatios", "FetchingRemoteRatiosAndLinks"})
          => /\ pc = "Failed"
             /\ shown = "fetch_error"
             /\ read_calls = <<>>
             /\ attempts = <<>>

C1_Witness ==
    /\ pc = "Failed"
    /\ ratios = Dict({})
    /\ links.tag = "list" /\ Len(links.v) = 2
    /\ actor_calls = 1
    /\ read_calls = <<>>
    /\ attempts = <<>>

\* C2: when APIFY_TOKEN or GEMINI_API_KEY is absent no submitted ticker enters
\* any pipeline stage: no local ratio fetch, no remote fetch, no transcript
\* download and no generation call ever happens.
C2_MissingSecretBlocksRequests ==
    ~(APIFY_TOKEN /\ GEMINI_KEY)
       => /\ pc = "Idle"
          /\ local_fetches = 0
          /\ actor_calls = 0
          /\ read_calls = <<>>
          /\ attempts = <<>>

\* C3: one request makes at most 3 generation calls; the calls stop at the
\* first one that succeeds, whose response is shown; when all 3 raise there is
\* no 4th call and the request ends in Failed showing the error and no report.
C3_AtMostThreeAttempts ==
    /\ Len(attempts) <= 3
    /\ \A k \in 1..(Len(attempts) - 1) : attempts[k] = "raise"
    /\ (attempts # <<>> /\ attempts[Len(attempts)] = "ok")
          => (pc = "Complete" /\ shown = "report")
    /\ (Len(attempts) = 3 /\ attempts[3] = "raise")
          => (pc = "Failed" /\ shown = "generation_error")
    /\ pc = "Complete" => (attempts # <<>> /\ attempts[Len(attempts)] = "ok")
    /\ pc = "Synthesizing" => Len(attempts) < 3
    /\ shown = "report" => pc = "Complete"

C3_Witness ==
    /\ pc = "Failed"
    /\ attempts = <<"raise", "raise", "raise">>
    /\ shown = "generation_error"

\* the labelled concatenation of the texts ts[k..]
RECURSIVE LabeledConcat(_, _)
LabeledConcat(ts, k) ==
    IF k > Len(ts) THEN <<>>
    ELSE <<Label(k)>> \o ts[k] \o LabeledConcat(ts, k + 1)

\* a is a prefix of b, character for character
IsPrefixOf(a, b) ==
    /\ Len(a) <= Len(b)
    /\ \A k \in 1..Len(a) :
          /\ a[k].kind = b[k].kind
          /\ a[k].n = b[k].n
          /\ a[k].ws = b[k].ws
          /\ a[k].len > 0
          /\ a[k].len <= b[k].len
          /\ k < Len(a) => a[k].len = b[k].len

\* C4: for up to 3 transcript texts, the transcript segment of the prompt is a
\* prefix of their labelled concatenation, is at most 165000 characters long,
\* and is the whole concatenation when that is at most 165000 characters long.
C4_SnippetsCappedPrefix ==
    PromptBuilt =>
        LET whole == LabeledConcat(transcripts, 1)
            cut == audit_prompt.snippets
        IN  /\ Len(transcripts) <= 3
            /\ all_transcripts_text = whole
            /\ IsPrefixOf(cut, whole)
            /\ TotalLen(cut) <= 165000
            /\ TotalLen(whole) <= 165000 => cut = whole
            /\ TotalLen(whole) > 165000 => TotalLen(cut) = 165000

C4_Witness ==
    /\ pc = "Synthesizing"
    /\ Len(transcripts) = 3
    /\ TotalLen(all_transcripts_text) > 165000
    /\ TotalLen(audit_prompt.snippets) = 165000
    /\ audit_prompt.snippets # all_transcripts_text

\* C5: with a non-empty remote RatioSet and an empty link sequence the request
\* makes no read_transcript call, reaches Synthesizing, cannot end without a
\* generation call, and the transcript text in the prompt is the empty string.
C5_NoLinksRatiosOnly ==
    (NonEmptyRatioSet(ratios) /\ links = List(<<>>))
       => /\ pc \in {"Synthesizing", "Complete", "Failed"}
          /\ read_calls = <<>>
          /\ transcripts = <<>>
          /\ audit_prompt.snippets = <<>>
          /\ audit_prompt.ratios = ratios
          /\ pc = "Synthesizing" => ENABLED StepGenerate
          /\ pc \in {"Complete", "Failed"} => attempts # <<>>

C5_Witness ==
    /\ pc = "Complete"
    /\ NonEmptyRatioSet(ratios)
    /\ links = List(<<>>)
    /\ read_calls = <<>>
    /\ attempts # <<>>
    /\ audit_prompt.snippets = <<>>

\* C6: once the remote actor has returned a non-empty RatioSet, a failing
\* profile-page fetch, a failing local ratio fetch or an unreadable document
\* never halts the request: it can reach Failed only from synthesis.
C6_DegradedDataNeverHalts ==
    (NonEmptyRatioSet(actor_ratios) /\ pc = "Failed") => attempts # <<>>

\* the pages read_transcript is to take text from: those among the first ten
\* for which extract_text gives a non-empty string
TextedPages(doc) ==
    {p \in 1..Len(doc.pages) : p <= 10 /\ doc.pages[p].len > 0}

\* C7: for a downloaded document of n pages read_transcript takes text only
\* from pages 1..min(10, n), in page order, each block preceded by a marker
\* with that page's 1-based number; no page above 10 appears in the result.
C7_FirstTenPagesInOrder ==
    (called /\ arg.fault = "none") =>
        /\ \A k \in 1..Len(ret) :
              ret[k].kind = "page" => (ret[k].n >= 1 /\ ret[k].n <= 10)
        /\ TextedPages(arg) # {} =>
              /\ Len(ret) = 2 * Cardinality(TextedPages(arg))
              /\ \A k \in 1..Len(ret) :
                    IF k % 2 = 1
                    THEN /\ ret[k].kind = "marker"
                         /\ ret[k].n \in TextedPages(arg)
                         /\ ret[k].len = 15 + (IF ret[k].n < 10 THEN 1 ELSE 2)
                         /\ k > 2 => ret[k - 2].n < ret[k].n
                    ELSE /\ ret[k].kind = "page"
                         /\ ret[k].n = ret[k - 1].n
                         /\ ret[k].len = arg.pages[ret[k].n].len
                         /\ ret[k].ws = arg.pages[ret[k].n].ws

C7_Witness ==
    /\ called
    /\ arg.fault = "none"
    /\ Len(arg.pages) > 10
    /\ \A p \in 1..Len(arg.pages) : arg.pages[p].len > 100
    /\ Len(ret) = 20
    /\ ret[19].n = 10

\* C8: read_transcript always returns a string: a failure-description string
\* after a download error, a non-success status or a parse error, and the
\* sentinel "[Scanned PDF/No Text]" for a document whose extracted text is
\* empty or whitespace-only.
C8_SentinelForBlankDocument ==
    called =>
        /\ arg.fault # "none" => (Len(ret) = 1 /\ ret[1].kind = "error")
        /\ (arg.fault = "none"
              /\ \A p \in 1..Len(arg.pages) :
                    p <= 10 => (arg.pages[p].len = 0 \/ arg.pages[p].ws))
              => (Len(ret) = 1 /\ ret[1].kind = "sentinel" /\ ret[1].len = 21)

\* s has a newline or two consecutive spaces
NotNormalized(s) ==
    \/ \E k \in 1..Len(s) : s[k] = "\n"
    \/ \E k \in 1..(Len(s) - 1) : s[k] = " " /\ s[k + 1] = " "

\* C9: every value get_company_ratios stores is whitespace-normalized: it has
\* no newline and no two consecutive spaces, whatever the raw value element.
C9_ValuesNormalized ==
    called => \A p \in ret : ~NotNormalized(p[2])

====
